---- MODULE Spec2Model ----
(***************************************************************************)
(* Model of exposure_python/main.py (CCTV exposure of a GPS track).        *)
(*                                                                         *)
(* Geometry.  The parameters of the program (radius, resolution,           *)
(* accept_range) and the coordinates of the track points and cameras are   *)
(* whole numbers of a quarter metre, so the interpolation step             *)
(* `resolution` (0.5 m) is 2 and `accept_range` (1.0 m) is 4.  The track   *)
(* runs east along the equator (latitude 0), where the cosine correction   *)
(* of quick_distance is 1 and the planar formula is exact.  A position is  *)
(* a record [x, y], x the easting and y the northing, in thousandths of    *)
(* that unit (Fine), and so is every distance quick_distance returns.      *)
(* Track points and cameras have y = 0; only the pseudo points projected   *)
(* from two coincident points (course 0, due north) leave the line.        *)
(* quick_distance takes a degree for 111319 m, get_coordinates moves on a  *)
(* sphere of radius 6371 km, where a degree is 111194.9 m: a hop of        *)
(* d metres measures d * 1.0011 metres to quick_distance (HopFine).        *)
(*                                                                         *)
(* Indices.  Sequences are 1-based: point k of the model is                *)
(* self.points[k-1], and camera c is row c-1 of the camera file.           *)
(*                                                                         *)
(* Time.  Timestamps are whole seconds; exposure times are hundredths of   *)
(* a second (integer division stands for the float quotient); a recorded  *)
(* speed is in quarter metres per second.                                  *)
(***************************************************************************)
EXTENDS Integers, Naturals, Sequences, FiniteSets, TLC

VARIABLES points, cams, radius,
          time_enabled, speed_enabled, cameras_per_point, unique_cameras,
          cam_amount, cam_expo, total_distance, total_time,
          back, front, pc, idx, err, result, fn

vars == <<points, cams, radius, time_enabled, speed_enabled,
          cameras_per_point, unique_cameras, cam_amount, cam_expo,
          total_distance, total_time, back, front, pc, idx, err, result, fn>>

progVars == <<points, cams, radius, time_enabled, speed_enabled,
              cameras_per_point, unique_cameras, cam_amount, cam_expo,
              total_distance, total_time, back, front, pc, idx, err, result>>

----------------------------------------------------------------------------
(* Program constants *)

resolution == 2
accept_range == 4
DefaultRadius == 40
DefaultAngle == 360
TimeScale == 100
Fine == 1000
HopFine == 1001

(* Bounds of the model *)

MaxPoints == 3
MaxPos == 6
MaxCams == 2
MaxRes == 3

(* An absent value: a CSV cell left empty, a GPX point without <time> or   *)
(* <speed>, Python's None.                                                 *)
NoVal == -1
(* The floats nan and inf (a per-camera time accumulator can hold nan, a   *)
(* reported percentage either).                                            *)
NaN == -2
Inf == -3

----------------------------------------------------------------------------
(* Arithmetic helpers *)

Abs(n) == IF n < 0 THEN -n ELSE n

(* The least k of lo..hi with k * k >= n. *)
RECURSIVE CeilSqrtIn(_, _, _)
CeilSqrtIn(n, lo, hi) ==
    IF lo >= hi THEN hi
    ELSE LET mid == (lo + hi) \div 2
         IN  IF mid * mid >= n THEN CeilSqrtIn(n, lo, mid)
             ELSE CeilSqrtIn(n, mid + 1, hi)

(* np.rint of the quotient n / d: round to nearest, ties to even.          *)
Rint(n, d) ==
    LET q == n \div d
        r == n % d
    IN  IF 2 * r < d THEN q
        ELSE IF 2 * r > d THEN q + 1
        ELSE IF q % 2 = 0 THEN q ELSE q + 1

RECURSIVE SortedSeq(_)
SortedSeq(S) ==
    IF S = {} THEN <<>>
    ELSE LET m == CHOOSE a \in S : \A b \in S : a <= b
         IN  <<m>> \o SortedSeq(S \ {m})

----------------------------------------------------------------------------
(* Geometry kernel *)

Pos(x, y) == [x |-> x, y |-> y]

(* quick_distance, rounded up to a whole fine unit.  Distances between two *)
(* points of the line are whole and exact; the others are only compared    *)
(* with whole thresholds F, and d <= F iff ceil(d) <= F.                   *)
quick_distance(p, q) ==
    LET dx == Abs(q.x - p.x)
        dy == Abs(q.y - p.y)
    IN  IF dy = 0 THEN dx
        ELSE IF dx = 0 THEN dy
        ELSE CeilSqrtIn(dx * dx + dy * dy, 0, dx + dy)

(* get_bearing between two points of an east-west line on the equator:     *)
(* dphi = 0, so arctan2(dlon, 0) is 90 or 270 degrees, and arctan2(0, 0)   *)
(* is 0 when the points coincide.                                          *)
get_bearing(p, q) ==
    IF q.x > p.x THEN 90 ELSE IF q.x < p.x THEN 270 ELSE 0

(* get_coordinates for the three courses get_bearing produces; `distance`  *)
(* is in quarter metres.                                                   *)
get_coordinates(p, bearing, distance) ==
    IF bearing = 90 THEN Pos(p.x + distance * HopFine, p.y)
    ELSE IF bearing = 270 THEN Pos(p.x - distance * HopFine, p.y)
    ELSE Pos(p.x, p.y + distance * HopFine)

----------------------------------------------------------------------------
(* Camera catalog *)

(* A camera row as load_cameras builds it: every present cell is a str.    *)
(* radius and angle are parsed by float() and int() where they are used;   *)
(* direction is used as it is.                                             *)
Cam(x, r, t, a, d) ==
    [x |-> x, radius |-> r, type |-> t, angle |-> a, direction |-> d]

CamPos(cam) == Pos(cam.x * Fine, 0)

(* self.radius if self.radius else float(cam.get('radius', 10)) *)
EffectiveRadius(rad, cam) ==
    IF rad # 0 /\ rad # NoVal THEN rad
    ELSE IF cam.radius = NoVal THEN DefaultRadius ELSE cam.radius

check_dist_to_cam_round_only(rad, d, cam, addon) ==
    IF d <= (EffectiveRadius(rad, cam) + addon) * Fine
    THEN IF cam.type \in {"round", "absent"} THEN "True" ELSE "False"
    ELSE "False"

(* check_dist_to_cam.  The result is "True", "False" or "TypeError":       *)
(* direction is None (no cell) or a str (csv.reader yields str and         *)
(* load_cameras stores it unconverted), so `direction - angle / 2` raises  *)
(* TypeError before the bearing is computed or compared.                   *)
check_dist_to_cam(rad, d, cam, addon) ==
    IF d <= (EffectiveRadius(rad, cam) + addon) * Fine
    THEN IF cam.type \in {"round", "absent"} THEN "True"
         ELSE IF cam.type = "directed"
              THEN IF (IF cam.angle = NoVal THEN DefaultAngle ELSE cam.angle) < 360
                   THEN "TypeError"
                   ELSE "True"
              ELSE "False"
    ELSE "False"

----------------------------------------------------------------------------
(* Track points *)

Point(x, t, s) == [x |-> x, time |-> t, speed |-> s]

PointPos(pt) == Pos(pt.x * Fine, 0)

(* The immutable inputs of a run, and the flags and memberships the        *)
(* membership pass leaves behind, as one record.                           *)
Ctx(pts, cs, rad, res, cpp, te, se) ==
    [points |-> pts, cams |-> cs, radius |-> rad, res |-> res,
     cpp |-> cpp, time_enabled |-> te, speed_enabled |-> se]

(* point_in_camera_fov: the cameras whose FOV test the point passes, or    *)
(* the exception the first failing test raises.  (The list of raw          *)
(* distances it also returns feeds only the mean/median statistics and is  *)
(* left out.)                                                              *)
point_in_camera_fov(cs, rad, p) ==
    LET verdict(c) == check_dist_to_cam(rad, quick_distance(p, CamPos(cs[c])), cs[c], 0)
    IN  [preds |-> {c \in 1..Len(cs) : verdict(c) = "True"},
         err |-> IF \E c \in 1..Len(cs) : verdict(c) = "TypeError"
                 THEN "TypeError(direction)" ELSE "none"]

track_route_all_cams(cs, rad, acc, index, pt) ==
    LET found == point_in_camera_fov(cs, rad, PointPos(pt))
        all == 1..Len(cs)
    IN  [time_enabled |-> acc.time_enabled /\ pt.time # NoVal,
         speed_enabled |-> acc.speed_enabled \/ (pt.speed # NoVal /\ pt.speed # 0),
         cpp |-> IF found.err = "none" /\ all # {}
                 THEN [i \in DOMAIN acc.cpp \cup {index} |->
                          IF i = index THEN all ELSE acc.cpp[i]]
                 ELSE acc.cpp,
         unique |-> IF found.err = "none" THEN acc.unique \cup all ELSE acc.unique,
         err |-> found.err]

(* One iteration of track_route's loop (lines 101-111) for point `index`.  *)
track_route(cs, rad, acc, index, pt) ==
    LET found == point_in_camera_fov(cs, rad, PointPos(pt))
    IN  [time_enabled |-> acc.time_enabled /\ pt.time # NoVal,
         speed_enabled |-> acc.speed_enabled \/ (pt.speed # NoVal /\ pt.speed # 0),
         cpp |-> IF found.err = "none" /\ found.preds # {}
                 THEN [i \in DOMAIN acc.cpp \cup {index} |->
                          IF i = index THEN found.preds ELSE acc.cpp[i]]
                 ELSE acc.cpp,
         unique |-> IF found.err = "none" THEN acc.unique \cup found.preds
                    ELSE acc.unique,
         err |-> found.err]

TrackInit == [time_enabled |-> TRUE, speed_enabled |-> FALSE,
              cpp |-> <<>>, unique |-> {}, err |-> "none"]

get_total_distance_short(pts) ==
    LET RECURSIVE Sum(_)
        Sum(i) == IF i >= Len(pts) - 1 THEN 0
                  ELSE quick_distance(PointPos(pts[Len(pts) - i + 1]),
                                      PointPos(pts[Len(pts) - i])) + Sum(i + 1)
    IN  Sum(1)

(* get_total_distance: the gaps summed from the last point backwards.      *)
get_total_distance(pts) ==
    LET RECURSIVE Sum(_)
        Sum(i) == IF i >= Len(pts) THEN 0
                  ELSE quick_distance(PointPos(pts[Len(pts) - i + 1]),
                                      PointPos(pts[Len(pts) - i])) + Sum(i + 1)
    IN  Sum(1)

----------------------------------------------------------------------------
(* Interpolation *)

(* line 188: int(np.rint(distance / resolution)) if distance > resolution  *)
(* else 1                                                                  *)
StepCount(distance, res) ==
    IF distance > res * Fine THEN Rint(distance, res * Fine) ELSE 1

(* test_points: hops of one resolution from point `ind` along `course`,    *)
(* counted until the first one outside the camera's FOV widened by         *)
(* accept_range, or until `npoints` hops are made.                         *)
test_points(ctx, ind, npoints, cam, course) ==
    LET RECURSIVE Loop(_, _, _)
        Loop(k, p, n) ==
            IF k >= npoints THEN [n |-> n, err |-> "none"]
            ELSE LET new == get_coordinates(p, course, ctx.res)
                     v == check_dist_to_cam(ctx.radius,
                                            quick_distance(new, CamPos(ctx.cams[cam])),
                                            ctx.cams[cam], accept_range)
                 IN  IF v = "True" THEN Loop(k + 1, new, n + 1)
                     ELSE IF v = "TypeError" THEN [n |-> n, err |-> "TypeError(direction)"]
                     ELSE [n |-> n, err |-> "none"]
    IN  Loop(0, PointPos(ctx.points[ind]), 0)

----------------------------------------------------------------------------
(* Directional pass *)

(* A float sum or comparison in which nan may take part.                   *)
FAdd(a, b) == IF a = NaN \/ b = NaN THEN NaN ELSE a + b

FGreater(a, b) == a # NaN /\ b # NaN /\ a > b

(* avg_speed_per_point as the quotient dist / |dt| of two numpy floats:    *)
(* a zero divisor gives inf (or nan for 0/0) and a warning, no exception.  *)
avg_speed_per_point(ctx, dist, point1, point2) ==
    [num |-> dist,
     den |-> Abs(ctx.points[point2].time - ctx.points[point1].time)]

(* lines 204-212: the exposure time of `pseudo_points` hops, in hundredths *)
(* of a second, or the exception the computation raises.                   *)
CamTime(ctx, point_ind, other_point, distance, pseudo_points) ==
    LET pt == ctx.points[point_ind]
        ot == ctx.points[other_point]
        meters == pseudo_points * ctx.res
        stamp == IF pt.time = NoVal \/ ot.time = NoVal
                 THEN [t |-> 0, err |-> "AttributeError(time)"]
                 ELSE [t |-> Abs(ot.time - pt.time) * TimeScale, err |-> "none"]
    IN  IF ctx.speed_enabled
        THEN IF pt.speed = NoVal THEN [t |-> 0, err |-> "TypeError(speed)"]
             ELSE IF pt.speed # 0
             THEN [t |-> (meters * TimeScale) \div pt.speed, err |-> "none"]
             ELSE stamp
        ELSE IF ctx.time_enabled
        THEN LET speed == avg_speed_per_point(ctx, distance, point_ind, other_point)
             IN  IF speed.den = 0
                 THEN [t |-> IF speed.num = 0 THEN NaN ELSE 0, err |-> "none"]
                 ELSE IF speed.num # 0
                 THEN [t |-> (meters * Fine * speed.den * TimeScale) \div speed.num,
                       err |-> "none"]
                 ELSE stamp
        ELSE stamp

NewExpo == [points |-> <<>>, dist |-> 0, time |-> 0]

InSeq(x, sq) == \E k \in 1..Len(sq) : sq[k] = x

ForwardSkipNever(expo, cam, point_ind, backward) == FALSE

(* line 193: not backward and point_ind + 1 in self.cam_expo[cam]['points'] *)
ForwardSkip(expo, cam, point_ind, backward) ==
    ~backward /\ InSeq(point_ind + 1, expo[cam].points)

HighestLast(cam_dist, highest_dist) == cam_dist

(* lines 218-219: if cam_dist > highest_dist: highest_dist = cam_dist *)
Highest(cam_dist, highest_dist) ==
    IF cam_dist > highest_dist THEN cam_dist ELSE highest_dist

(* The body of the loop over one point's cameras (lines 191-220) for the   *)
(* camera `cam`; acc carries cam_expo, highest_dist and highest_time.  An  *)
(* exception leaves the loop with what was assigned before it.             *)
CamBody(ctx, acc, cam, point_ind, other_point, backward, npoints, course, distance) ==
    LET expo0 == IF cam \in DOMAIN acc.cam_expo THEN acc.cam_expo
                 ELSE [c \in DOMAIN acc.cam_expo \cup {cam} |->
                          IF c = cam THEN NewExpo ELSE acc.cam_expo[c]]
    IN  IF ForwardSkip(expo0, cam, point_ind, backward)
        THEN [acc EXCEPT !.cam_expo = expo0]
        ELSE
        LET expo1 == IF InSeq(point_ind, expo0[cam].points) THEN expo0
                     ELSE [expo0 EXCEPT ![cam].points = Append(@, point_ind)]
            fast == /\ backward
                    /\ (point_ind - 1) \in DOMAIN ctx.cpp
                    /\ cam \in ctx.cpp[point_ind - 1]
            probe == IF fast THEN [n |-> npoints, err |-> "none"]
                     ELSE test_points(ctx, point_ind, npoints, cam, course)
            pseudo_points == probe.n
            ct == CamTime(ctx, point_ind, other_point, distance, pseudo_points)
            cam_dist == pseudo_points * ctx.res
        IN  IF probe.err # "none"
            THEN [acc EXCEPT !.cam_expo = expo1, !.err = probe.err]
            ELSE IF ct.err # "none"
            THEN [acc EXCEPT !.cam_expo = expo1, !.err = ct.err]
            ELSE [cam_expo |-> [expo1 EXCEPT ![cam].time = FAdd(@, ct.t),
                                             ![cam].dist = @ + cam_dist],
                  highest_dist |-> Highest(cam_dist, acc.highest_dist),
                  highest_time |-> IF FGreater(ct.t, acc.highest_time)
                                   THEN ct.t ELSE acc.highest_time,
                  err |-> "none"]

(* One iteration of calculate_direction's loop over                        *)
(* cameras_per_point.items() (lines 181-223), for a point that has the     *)
(* neighbour the direction needs: the new cam_expo and what the point adds *)
(* to total_meters and total_seconds.                                      *)
PointBody(ctx, expo, point_ind, backward) ==
    LET other_point == IF backward THEN point_ind - 1 ELSE point_ind + 1
        course == get_bearing(PointPos(ctx.points[point_ind]),
                              PointPos(ctx.points[other_point]))
        distance == quick_distance(PointPos(ctx.points[point_ind]),
                                   PointPos(ctx.points[other_point]))
        npoints == StepCount(distance, ctx.res)
        keys == SortedSeq(ctx.cpp[point_ind])
        RECURSIVE Loop(_, _)
        Loop(k, acc) ==
            IF k > Len(keys) \/ acc.err # "none" THEN acc
            ELSE Loop(k + 1, CamBody(ctx, acc, keys[k], point_ind, other_point,
                                     backward, npoints, course, distance))
        out == Loop(1, [cam_expo |-> expo, highest_dist |-> 0, highest_time |-> 0,
                        err |-> "none"])
    IN  [cam_expo |-> out.cam_expo, meters |-> out.highest_dist,
         seconds |-> out.highest_time, err |-> out.err]

(* Whether calculate_direction skips the point (lines 171-180).            *)
HasNeighbour(ctx, point_ind, backward) ==
    IF backward THEN point_ind # 1 ELSE point_ind # Len(ctx.points)

(* One item of calculate_direction's loop (lines 170-223).                 *)
calculate_direction_point(ctx, expo, point_ind, backward) ==
    IF HasNeighbour(ctx, point_ind, backward)
    THEN PointBody(ctx, expo, point_ind, backward)
    ELSE [cam_expo |-> expo, meters |-> 0, seconds |-> 0, err |-> "none"]

----------------------------------------------------------------------------
(* Inputs *)

(* Eastings of track points, in quarter metres: gaps between them are 0    *)
(* (two fixes at one place), below, at and above one resolution step, on   *)
(* a rounding tie of the step count (3 and 5 are 1.5 and 2.5 steps), and   *)
(* wider than a camera radius plus accept_range.                           *)
TrackXs == {0, 1, 3, MaxPos}

(* Tracks: up to MaxPoints points heading east or standing still. *)
RECURSIVE TracksOfLen(_)
TracksOfLen(n) ==
    IF n = 0 THEN {<<>>}
    ELSE {Append(t, x) : t \in TracksOfLen(n - 1), x \in TrackXs}

NonDecreasing(t) == \A i \in 1..(Len(t) - 1) : t[i] <= t[i + 1]

Tracks == UNION {{t \in TracksOfLen(n) : NonDecreasing(t)} : n \in 0..MaxPoints}

(* What the GPX points carry besides their position: a timestamp per point *)
(* (one second apart, or all equal) or none, and a recorded speed on every *)
(* point, on the first point only, on every point with a last one at rest, *)
(* or on none.                                                             *)
Profiles == {<<"incr", "none">>, <<"none", "none">>, <<"incr", "all">>,
             <<"none", "all">>, <<"same", "none">>, <<"none", "first">>,
             <<"incr", "lastzero">>}

SpeedVal == 4

TimeOf(mode, i) ==
    IF mode = "incr" THEN i ELSE IF mode = "same" THEN 0 ELSE NoVal

SpeedOf(mode, i, n) ==
    IF mode = "all" THEN SpeedVal
    ELSE IF mode = "first" THEN (IF i = 1 THEN SpeedVal ELSE NoVal)
    ELSE IF mode = "lastzero" THEN (IF i = n THEN 0 ELSE SpeedVal)
    ELSE NoVal

MakePoints(xs, prof) ==
    [i \in 1..Len(xs) |-> Point(xs[i], TimeOf(prof[1], i), SpeedOf(prof[2], i, Len(xs)))]

(* The rows a camera file may hold. *)
CamRows == <<Cam(0, 2, "directed", NoVal, 90),
             Cam(0, 1, "round", NoVal, NoVal),
             Cam(MaxPos, 1, "absent", NoVal, NoVal),
             Cam(0, NoVal, "round", NoVal, NoVal),
             Cam(MaxPos, 1, "directed", 360, NoVal),
             Cam(0, 1, "directed", 90, 90)>>

Catalogs ==
    {[k \in 1..Cardinality(S) |-> CamRows[SortedSeq(S)[k]]] :
        S \in {T \in SUBSET (1..Len(CamRows)) : Cardinality(T) <= MaxCams}}

(* args.radius: absent, or 1 m. *)
RadiusArgs == {NoVal, 4}

----------------------------------------------------------------------------
(* The program: CCTVExposure.__init__, the two directional passes, main    *)

NoFn == [kind |-> "none"]

(* The interpolation step of the run: the module constant `resolution`,    *)
(* or the value given in its place.                                        *)
Resolution == IF fn.kind = "res" THEN fn.res ELSE resolution

TheCtx == Ctx(points, cams, radius, Resolution, cameras_per_point,
              time_enabled, speed_enabled)

Items == SortedSeq(DOMAIN cameras_per_point)

Init ==
    /\ \E xs \in Tracks, prof \in Profiles : points = MakePoints(xs, prof)
    /\ cams \in Catalogs
    /\ radius \in RadiusArgs
    /\ time_enabled = TRUE
    /\ speed_enabled = FALSE
    /\ cameras_per_point = <<>>
    /\ unique_cameras = {}
    /\ cam_amount = 0
    /\ cam_expo = <<>>
    /\ total_distance = 0
    /\ total_time = 0
    /\ back = [d |-> 0, t |-> 0]
    /\ front = [d |-> 0, t |-> 0]
    /\ pc = "track_route"
    /\ idx = 1
    /\ err = "none"
    /\ result = [status |-> "none"]
    /\ fn = NoFn

(* track_route, one point per step (lines 101-111). *)
TrackRoutePoint ==
    /\ pc = "track_route"
    /\ idx <= Len(points)
    /\ LET acc == track_route(cams, radius,
                              [time_enabled |-> time_enabled,
                               speed_enabled |-> speed_enabled,
                               cpp |-> cameras_per_point,
                               unique |-> unique_cameras, err |-> "none"],
                              idx, points[idx])
       IN  /\ time_enabled' = acc.time_enabled
           /\ speed_enabled' = acc.speed_enabled
           /\ cameras_per_point' = acc.cpp
           /\ unique_cameras' = acc.unique
           /\ err' = acc.err
           /\ pc' = IF acc.err = "none" THEN "track_route" ELSE "crashed"
    /\ idx' = idx + 1
    /\ UNCHANGED <<points, cams, radius, cam_amount, cam_expo, total_distance,
                   total_time, back, front, result, fn>>

(* The end of track_route and of __init__ (lines 113, 87, 88):             *)
(* self.points[-1] of an empty segment raises IndexError.                  *)
InitTotals ==
    /\ pc = "track_route"
    /\ idx > Len(points)
    /\ cam_amount' = Cardinality(unique_cameras)
    /\ total_distance' = get_total_distance(points)
    /\ IF time_enabled /\ Len(points) = 0
       THEN /\ pc' = "crashed"
            /\ err' = "IndexError"
            /\ total_time' = total_time
       ELSE /\ pc' = "backward"
            /\ err' = err
            /\ total_time' = IF time_enabled
                             THEN points[Len(points)].time - points[1].time
                             ELSE 0
    /\ idx' = 1
    /\ UNCHANGED <<points, cams, radius, time_enabled, speed_enabled,
                   cameras_per_point, unique_cameras, cam_expo, back, front,
                   result, fn>>

(* calculate_direction(backward=True), one item of cameras_per_point per   *)
(* step.                                                                   *)
BackwardPoint ==
    /\ pc = "backward"
    /\ idx <= Len(Items)
    /\ LET out == calculate_direction_point(TheCtx, cam_expo, Items[idx], TRUE)
       IN  /\ cam_expo' = out.cam_expo
           /\ err' = out.err
           /\ IF out.err = "none"
              THEN /\ back' = [d |-> back.d + out.meters, t |-> back.t + out.seconds]
                   /\ pc' = "backward"
              ELSE /\ back' = back
                   /\ pc' = "crashed"
    /\ idx' = idx + 1
    /\ UNCHANGED <<points, cams, radius, time_enabled, speed_enabled,
                   cameras_per_point, unique_cameras, cam_amount,
                   total_distance, total_time, front, result, fn>>

(* The backward pass returns and the forward pass starts (lines 229-230).  *)
BackwardDone ==
    /\ pc = "backward"
    /\ idx > Len(Items)
    /\ pc' = "forward"
    /\ idx' = 1
    /\ UNCHANGED <<points, cams, radius, time_enabled, speed_enabled,
                   cameras_per_point, unique_cameras, cam_amount, cam_expo,
                   total_distance, total_time, back, front, err, result, fn>>

(* calculate_direction(backward=False), one item per step. *)
ForwardPoint ==
    /\ pc = "forward"
    /\ idx <= Len(Items)
    /\ LET out == calculate_direction_point(TheCtx, cam_expo, Items[idx], FALSE)
       IN  /\ cam_expo' = out.cam_expo
           /\ err' = out.err
           /\ IF out.err = "none"
              THEN /\ front' = [d |-> front.d + out.meters, t |-> front.t + out.seconds]
                   /\ pc' = "forward"
              ELSE /\ front' = front
                   /\ pc' = "crashed"
    /\ idx' = idx + 1
    /\ UNCHANGED <<points, cams, radius, time_enabled, speed_enabled,
                   cameras_per_point, unique_cameras, cam_amount,
                   total_distance, total_time, back, result, fn>>

(* time_and_distance_in_camera_fov returns (line 231). *)
ForwardDone ==
    /\ pc = "forward"
    /\ idx > Len(Items)
    /\ pc' = "report"
    /\ idx' = 1
    /\ UNCHANGED <<points, cams, radius, time_enabled, speed_enabled,
                   cameras_per_point, unique_cameras, cam_amount, cam_expo,
                   total_distance, total_time, back, front, err, result, fn>>

(* main, lines 268-300, for the segment: the percentages and the report.   *)
(* total_distance is the int 0 for a segment of fewer than 2 points        *)
(* (float / int 0 raises ZeroDivisionError) and a numpy float otherwise    *)
(* (float / np.float64(0.0) is nan or inf, with a warning); total_time is  *)
(* a Python float and the exposure time over a segment whose timestamps    *)
(* are all equal is one too, so that quotient raises.  Percentages are in  *)
(* hundredths of a percent; total_distance is in fine units.               *)
Report ==
    /\ pc = "report"
    /\ fn.kind = "none"
    /\ LET dist == back.d + front.d
           time == back.t + front.t
           dist_percentage ==
               IF total_distance = 0 THEN (IF dist = 0 THEN NaN ELSE Inf)
               ELSE (dist * Fine * 10000) \div total_distance
           time_percentage ==
               IF time_enabled /\ total_time # 0
               THEN (time * 100) \div total_time ELSE NoVal
           failure ==
               IF Len(points) < 2 THEN "ZeroDivisionError"
               ELSE IF time_enabled /\ total_time = 0 THEN "ZeroDivisionError"
               ELSE IF ~(unique_cameras \subseteq DOMAIN cam_expo) THEN "KeyError"
               ELSE "none"
       IN  IF failure # "none"
           THEN /\ pc' = "crashed"
                /\ err' = failure
                /\ result' = result
           ELSE /\ pc' = "done"
                /\ err' = err
                /\ result' = [status |-> "ok",
                              total_distance |-> total_distance,
                              number_of_unique_cams |-> cam_amount,
                              exposure_distance |-> dist,
                              dist_percentage |-> dist_percentage,
                              has_time |-> time_enabled,
                              exposure_time |-> IF time_enabled THEN time ELSE NoVal,
                              time_percentage |-> time_percentage]
    /\ UNCHANGED <<points, cams, radius, time_enabled, speed_enabled,
                   cameras_per_point, unique_cameras, cam_amount, cam_expo,
                   total_distance, total_time, back, front, idx, fn>>

Next ==
    \/ TrackRoutePoint
    \/ InitTotals
    \/ BackwardPoint
    \/ BackwardDone
    \/ ForwardPoint
    \/ ForwardDone
    \/ Report

Spec == Init /\ [][Next]_vars

----------------------------------------------------------------------------
(* The FOV test as a function of its arguments *)

MaxDist == 5

FovCams == {Cam(0, r, t, a, d) : r \in {NoVal, 1, 3},
                                 t \in {"round", "absent", "directed", "dome"},
                                 a \in {NoVal, 40, 90, 360},
                                 d \in {NoVal, 0, 90, 350}}

(* Distances in fine units, on and next to the whole quarter metres. *)
FovDists ==
    {k * Fine + e : k \in (0..MaxDist) \cup {DefaultRadius, DefaultRadius + accept_range},
                    e \in {-1, 0, 1}} \ {-1}

(* The bearing from the camera to the tested point, as get_bearing would   *)
(* return it for the point's coordinates.                                  *)
FovBearings == {0, 10, 45, 90, 180, 330, 350, 359}

InitFov ==
    /\ fn \in [kind : {"fov"}, cam : FovCams, d : FovDists,
               addon : {0, accept_range}, rad : RadiusArgs \cup {0},
               bearing : FovBearings, out : {"pending"}]
    /\ points = <<>>
    /\ cams = <<>>
    /\ radius = NoVal
    /\ time_enabled = TRUE
    /\ speed_enabled = FALSE
    /\ cameras_per_point = <<>>
    /\ unique_cameras = {}
    /\ cam_amount = 0
    /\ cam_expo = <<>>
    /\ total_distance = 0
    /\ total_time = 0
    /\ back = [d |-> 0, t |-> 0]
    /\ front = [d |-> 0, t |-> 0]
    /\ pc = "fn"
    /\ idx = 1
    /\ err = "none"
    /\ result = [status |-> "none"]

(* A call of check_dist_to_cam. *)
FovCheck ==
    /\ fn.kind = "fov"
    /\ fn.out = "pending"
    /\ fn' = [fn EXCEPT !.out = check_dist_to_cam(fn.rad, fn.d, fn.cam, fn.addon)]
    /\ UNCHANGED progVars

NextFov == FovCheck

SpecFov == InitFov /\ [][NextFov]_vars

----------------------------------------------------------------------------
(* The run repeated with another interpolation step *)

(* The same track and catalog run twice, with the interpolation steps      *)
(* r1 < r2 in place of `resolution`; timestamps one second apart, no       *)
(* recorded speed, no radius argument.                                     *)
InitRes ==
    /\ \E xs \in Tracks, r1 \in 1..MaxRes, r2 \in 1..MaxRes :
          /\ Len(xs) >= 2
          /\ r1 < r2
          /\ points = MakePoints(xs, <<"incr", "none">>)
          /\ fn = [kind |-> "res", res |-> r1, r1 |-> r1, r2 |-> r2,
                   out1 |-> NoVal, out2 |-> NoVal]
    /\ cams \in Catalogs
    /\ radius = NoVal
    /\ time_enabled = TRUE
    /\ speed_enabled = FALSE
    /\ cameras_per_point = <<>>
    /\ unique_cameras = {}
    /\ cam_amount = 0
    /\ cam_expo = <<>>
    /\ total_distance = 0
    /\ total_time = 0
    /\ back = [d |-> 0, t |-> 0]
    /\ front = [d |-> 0, t |-> 0]
    /\ pc = "track_route"
    /\ idx = 1
    /\ err = "none"
    /\ result = [status |-> "none"]

(* The run with r1 returns its exposure distance (line 231); the passes    *)
(* start again with r2 on a fresh cam_expo.                                *)
RestartCoarse ==
    /\ fn.kind = "res"
    /\ pc = "report"
    /\ fn.res = fn.r1
    /\ fn' = [fn EXCEPT !.res = fn.r2, !.out1 = back.d + front.d]
    /\ cam_expo' = <<>>
    /\ back' = [d |-> 0, t |-> 0]
    /\ front' = [d |-> 0, t |-> 0]
    /\ pc' = "backward"
    /\ idx' = 1
    /\ UNCHANGED <<points, cams, radius, time_enabled, speed_enabled,
                   cameras_per_point, unique_cameras, cam_amount,
                   total_distance, total_time, err, result>>

(* The run with r2 returns its exposure distance. *)
FinishCoarse ==
    /\ fn.kind = "res"
    /\ pc = "report"
    /\ fn.res = fn.r2
    /\ fn' = [fn EXCEPT !.out2 = back.d + front.d]
    /\ pc' = "done"
    /\ UNCHANGED <<points, cams, radius, time_enabled, speed_enabled,
                   cameras_per_point, unique_cameras, cam_amount, cam_expo,
                   total_distance, total_time, back, front, idx, err, result>>

NextRes ==
    \/ TrackRoutePoint
    \/ InitTotals
    \/ BackwardPoint
    \/ BackwardDone
    \/ ForwardPoint
    \/ ForwardDone
    \/ RestartCoarse
    \/ FinishCoarse

SpecRes == InitRes /\ [][NextRes]_vars

----------------------------------------------------------------------------
(* Properties *)

(* The FOV test of the membership pass, from the inputs alone. *)
Verdict(i, c) ==
    check_dist_to_cam(radius, quick_distance(PointPos(points[i]), CamPos(cams[c])),
                      cams[c], 0)

PointIds == 1..Len(points)
CamIds == 1..Len(cams)
Gaps == 1..(Len(points) - 1)

GapLen(i) == Abs(points[i + 1].x - points[i].x) * Fine

(* The sum of f[a] over the a of S. *)
RECURSIVE SumFn(_, _)
SumFn(f, S) ==
    IF S = {} THEN 0
    ELSE LET a == CHOOSE b \in S : TRUE IN f[a] + SumFn(f, S \ {a})

TrackLength == SumFn([i \in Gaps |-> GapLen(i)], Gaps)

PassesDone == pc \in {"report", "done"}

ExposureDistance == back.d + front.d
ExposureTime == back.t + front.t

(* Some single round camera observes every point, and no other camera     *)
(* observes any.                                                           *)
OneRoundCameraSeesAll ==
    /\ Len(points) >= 2
    /\ \E c \in CamIds :
          /\ cams[c].type \in {"round", "absent"}
          /\ \A i \in PointIds : Verdict(i, c) = "True"
          /\ \A o \in CamIds \ {c} : \A i \in PointIds : Verdict(i, o) = "False"

NoPointObserved ==
    \A i \in PointIds : \A c \in CamIds : Verdict(i, c) = "False"

(* C2: when no point passes the FOV test of any camera, both passes leave  *)
(* the exposure distance and time at 0, the unique camera count at 0 and   *)
(* no per-camera accumulator.                                              *)
C2_NothingObserved ==
    (PassesDone /\ NoPointObserved) =>
        /\ ExposureDistance = 0
        /\ ExposureTime = 0
        /\ cam_amount = 0
        /\ unique_cameras = {}
        /\ DOMAIN cameras_per_point = {}
        /\ DOMAIN cam_expo = {}
        /\ (pc = "done" => /\ result.exposure_distance = 0
                           /\ result.number_of_unique_cams = 0)

C2_Witness ==
    /\ pc = "done"
    /\ NoPointObserved
    /\ Len(points) >= 2
    /\ Len(cams) >= 1
    /\ total_distance > 0

(* C3: for a track of positive length (and positive duration when it has   *)
(* timestamps) the reported distance and time percentages lie in [0,100].  *)
C3_PercentagesInRange ==
    (pc = "done" /\ total_distance > 0 /\ (time_enabled => total_time > 0)) =>
        /\ result.dist_percentage \in 0..10000
        /\ ExposureDistance * Fine <= total_distance
        /\ (time_enabled => /\ result.time_percentage \in 0..10000
                            /\ ExposureTime <= total_time * TimeScale)

Degenerate ==
    \/ Len(points) < 2
    \/ TrackLength = 0
    \/ /\ \A i \in PointIds : points[i].time # NoVal
       /\ points[Len(points)].time = points[1].time

(* C4: a degenerate segment (fewer than 2 points, zero length, or zero     *)
(* duration with timestamps) ends in the explicit outcome "insufficient    *)
(* track data": no division by zero is executed and no nan or inf is       *)
(* reported.                                                               *)
C4_InsufficientData ==
    Degenerate =>
        /\ (pc = "crashed" => err = "insufficient track data")
        /\ (pc = "done" => /\ result.status = "insufficient track data"
                           /\ result.dist_percentage \notin {NaN, Inf})

(* A track of at least 2 points without timestamps, and without a          *)
(* recorded speed on at least one point.                                   *)
NoTimeData ==
    /\ Len(points) >= 2
    /\ \A i \in PointIds : points[i].time = NoVal
    /\ \E i \in PointIds : points[i].speed = NoVal

(* C10 as stated: on a track of at least 2 points that carries no          *)
(* timestamp and no speed, or speed on some points but not on the one      *)
(* being processed, both passes run to completion: the time computation    *)
(* never dereferences a missing timestamp or speed.                        *)
C10_NoMissingDereference ==
    NoTimeData => err \notin {"AttributeError(time)", "TypeError(speed)"}

NoDuplicates(sq) == \A j, k \in 1..Len(sq) : sq[j] = sq[k] => j = k

(* The gaps next to a point that camera c observes. *)
GapsSeenBy(c) ==
    {i \in Gaps : Verdict(i, c) = "True" \/ Verdict(i + 1, c) = "True"}

GapSteps(i) == StepCount(GapLen(i), resolution) * resolution

C8_Accumulators ==
    \A c \in DOMAIN cam_expo :
        /\ NoDuplicates(cam_expo[c].points)
        /\ cam_expo[c].dist <= SumFn([i \in Gaps |-> GapSteps(i)], GapsSeenBy(c))

(* What a forward step does for camera c of the point it processes. *)
C8_ForwardStep ==
    (pc = "forward" /\ idx <= Len(Items) /\ pc' # "crashed"
        /\ Items[idx] # Len(points)) =>
        \A c \in cameras_per_point[Items[idx]] :
            IF c \in DOMAIN cam_expo /\ InSeq(Items[idx] + 1, cam_expo[c].points)
            THEN cam_expo'[c] = cam_expo[c]
            ELSE InSeq(Items[idx], cam_expo'[c].points)

(* C8: a camera's attributed-point list never holds an index twice; the    *)
(* forward pass leaves the camera's accumulator alone for point i exactly  *)
(* when the list already holds point i+1, and otherwise attributes point i *)
(* to it; and the camera's accumulated exposure distance never exceeds the *)
(* sum of stepCount * resolution over the gaps next to a point it          *)
(* observes, so that no gap is counted for it twice.                       *)
C8_GapCountedOnce == []C8_Accumulators /\ [][C8_ForwardStep]_vars

C8_Witness ==
    /\ pc = "done"
    /\ Len(points) = 3
    /\ \E c \in DOMAIN cam_expo :
          /\ cam_expo[c].points = <<2, 3>>
          /\ \A i \in PointIds : Verdict(i, c) = "True"
          /\ front.d = 0
          /\ cam_expo[c].dist = SumFn([i \in Gaps |-> GapSteps(i)], Gaps)

(* The largest of the values f takes on S, 0 for none. *)
MaxFn(f, S) ==
    IF S = {} THEN 0 ELSE CHOOSE m \in {f[a] : a \in S} : \A b \in S : f[b] <= m

DistOf(expo, c) == IF c \in DOMAIN expo THEN expo[c].dist ELSE 0

(* C9: a step of a pass adds to the pass's total the largest exposure      *)
(* distance the step adds to any one camera; when both passes are over,    *)
(* every camera's accumulated distance is at most the total exposure       *)
(* distance, which is at most the sum of the cameras' accumulated          *)
(* distances.                                                              *)
C9_StepAddsMaximum ==
    [][/\ (pc \in {"backward", "forward"} /\ pc' # "crashed") =>
             (back'.d + front'.d) - (back.d + front.d)
                = MaxFn([c \in CamIds |-> DistOf(cam_expo', c) - DistOf(cam_expo, c)],
                        CamIds)
       /\ pc' = "report" =>
             /\ \A c \in DOMAIN cam_expo' : cam_expo'[c].dist <= back'.d + front'.d
             /\ back'.d + front'.d
                   <= SumFn([c \in DOMAIN cam_expo' |-> cam_expo'[c].dist],
                            DOMAIN cam_expo')]_vars

C9_Witness ==
    /\ pc = "done"
    /\ \E c, o \in DOMAIN cam_expo :
          /\ 0 < cam_expo[c].dist
          /\ cam_expo[c].dist < cam_expo[o].dist
          /\ cam_expo[o].dist < ExposureDistance
          /\ ExposureDistance < cam_expo[c].dist + cam_expo[o].dist

----------------------------------------------------------------------------
(* Properties of the FOV test *)

FovAngle(cam) == IF cam.angle = NoVal THEN DefaultAngle ELSE cam.angle

(* Whether bearing b lies in [direction - angle/2, direction + angle/2]    *)
(* taken modulo 360 (doubled, to keep half degrees whole).                 *)
InArc(b, direction, angle) ==
    \E k \in {-1, 0, 1} :
        /\ 2 * direction - angle <= 2 * (b + 360 * k)
        /\ 2 * (b + 360 * k) <= 2 * direction + angle

(* C5 as stated: for a directed camera with a view angle below 360 and a   *)
(* point within effective radius + margin, the FOV test is true exactly    *)
(* when the bearing from the camera to the point lies in                   *)
(* [direction - angle/2, direction + angle/2] modulo 360.                  *)
C5_BearingInArc ==
    (/\ fn.kind = "fov"
     /\ fn.out # "pending"
     /\ fn.cam.type = "directed"
     /\ FovAngle(fn.cam) < 360
     /\ fn.cam.direction # NoVal
     /\ fn.d <= (EffectiveRadius(fn.rad, fn.cam) + fn.addon) * Fine) =>
        fn.out = IF InArc(fn.bearing, fn.cam.direction, FovAngle(fn.cam))
                 THEN "True" ELSE "False"

(* C6: on a directed camera whose view angle is 360 the FOV test gives     *)
(* what it gives on a round camera of the same position and radius: true   *)
(* exactly when the distance is at most the effective radius (the global   *)
(* override if set, else the camera's radius or the default) plus the      *)
(* margin, whatever the bearing and whether or not a direction is given.   *)
C6_FullCircleIsRound ==
    (/\ fn.kind = "fov"
     /\ fn.out # "pending"
     /\ fn.cam.type = "directed"
     /\ FovAngle(fn.cam) = 360) =>
        /\ fn.out = check_dist_to_cam(fn.rad, fn.d, [fn.cam EXCEPT !.type = "round"],
                                      fn.addon)
        /\ fn.out = IF fn.d <= ((IF fn.rad \notin {NoVal, 0} THEN fn.rad
                                 ELSE IF fn.cam.radius = NoVal THEN DefaultRadius
                                 ELSE fn.cam.radius) + fn.addon) * Fine
                    THEN "True" ELSE "False"

C6_Witness ==
    /\ fn.kind = "fov"
    /\ fn.out = "True"
    /\ fn.cam.type = "directed"
    /\ fn.cam.angle = 360
    /\ fn.cam.direction # NoVal
    /\ fn.cam.radius = 1
    /\ fn.rad = NoVal
    /\ fn.addon = accept_range
    /\ fn.d = (fn.cam.radius + fn.addon) * Fine

----------------------------------------------------------------------------
(* Properties of the resolution *)

(* C7 as stated: for a fixed track, catalog, radius and margin and two     *)
(* resolutions r1 < r2, the exposure distance computed with r1 is at       *)
(* least the one computed with r2.                                         *)
C7_FinerNeverLess ==
    (fn.kind = "res" /\ pc = "done") => fn.out1 >= fn.out2

====
